---- MODULE Spec2Model ----
(***************************************************************************)
(* A model of the Prolific integration of PsychoPy:                        *)
(*   psychopy/projects/prolific.py         (session, user, project record) *)
(*   psychopy/projects/prolific_client.py  (HTTP client)                   *)
(*   psychopy/app/prolific_ui/project.py   (project editor, sync workflow) *)
(*   psychopy/app/prolific_ui/menu.py      (menu handlers)                 *)
(* Every action is one call of a function or one GUI handler, run to its   *)
(* return or to the exception that leaves it.                              *)
(***************************************************************************)
EXTENDS Integers, Sequences, FiniteSets, TLC

VARIABLES
    sessionObj,      \* identity of the object bound to _existingSession; 0 is None
    session,         \* the fields of the object bound to _existingSession
    lastFetch,       \* outcome of the last GET /users/me/ made for that object
    knownUsers,      \* prolific.knownUsers: username -> stored credential record
    prolificUser,    \* prefs.appData['projects']['prolificUser']
    knownProjects,   \* prolific.knownProjects, the mapping held in memory
    projectsFile,    \* projects.json, what the last save() wrote
    frameProject,    \* the builder frame's prolific_project
    out              \* what the last call did: arguments, requests, result

vars == <<sessionObj, session, lastFetch, knownUsers, prolificUser,
          knownProjects, projectsFile, frameProject, out>>

-----------------------------------------------------------------------------
(* Python values *)

\* None, where the slot otherwise holds a string
None == "<None>"

\* no exception left the call
NoExc == "none"

\* bool(v) for a string-or-None value
Truthy(v) == v # None /\ v # ""

-----------------------------------------------------------------------------
(* Bounds of the model *)

\* ProlificSession objects one behaviour may construct
MaxObjects == 3

\* tokens the user may present; tokA and tokB are known to the server
Tokens == {"tokA", "tokB", "tokBad"}

\* what GET /users/me/ answers for a valid token (a missing key is None)
ServerUsers ==
    [tokA |-> [username |-> "alice", id |-> "u1", name |-> "Alice",
               currency_code |-> "GBP", token |-> None],
     tokB |-> [username |-> "bob", id |-> "u2", name |-> "Bob",
               currency_code |-> "USD", token |-> "tokSrv"]]

ValidTokens == DOMAIN ServerUsers

\* HTTP status codes the server may answer with
Statuses == {200, 201, 401}

\* a response of the transport: err is a network-level failure (requests raises)
Responses ==
    {[err |-> TRUE, status |-> 0]} \cup {[err |-> FALSE, status |-> s] : s \in Statuses}

\* what a direct call of the client may meet: any response, the success status
\* of the request only for a token the server knows
ClientResponses(token, success) ==
    {r \in Responses : (~r.err /\ r.status = success) => token \in ValidTokens}

\* no request is made
NoResponse == [err |-> FALSE, status |-> 0]

\* the values an input may take, which matter only when the call asks for it
Asked(asked, values, default) == IF asked THEN values ELSE {default}

\* what the handlers of the application are run against: a network failure,
\* a refusal, or the success status of the request
AppResponses(token, success) ==
    {r \in ClientResponses(token, success) : r.err \/ r.status \in {success, 401}}

-----------------------------------------------------------------------------
(* prolific_client.ProlificClient *)

\* {**{"token": self.token}, **data}: the keys of data win
with_token(token, data) ==
    [data EXCEPT !.token = IF data.token = None THEN token ELSE data.token]

\* the result of a call: exc, or ok with data, or ok = FALSE for a None result
retrieve_prolific_user(token, resp) ==
    IF resp.err
    THEN [exc |-> "ConnectionError", ok |-> FALSE, data |-> ServerUsers.tokA]
    ELSE IF resp.status # 200
    THEN [exc |-> NoExc, ok |-> FALSE, data |-> ServerUsers.tokA]
    ELSE [exc |-> NoExc, ok |-> TRUE, data |-> with_token(token, ServerUsers[token])]

-----------------------------------------------------------------------------
(* prolific.User *)

\* User(localData={}, rememberMe=False) after __init__ stored the token
AnonymousData(gtok) ==
    [username |-> None, id |-> None, name |-> None, currency_code |-> None,
     token |-> gtok]

\* tokens[self.username] = self.data; tokens.save()
saveLocal(known, data) ==
    [n \in (DOMAIN known) \cup {data.username} |->
        IF n = data.username THEN data ELSE known[n]]

\* User.__init__: data['token'] is the token of the process-wide session
UserInit(localData, rememberMe, gtok, known) ==
    LET data == [localData EXCEPT !.token = gtok]
    IN  [data |-> data,
         known |-> IF rememberMe THEN saveLocal(known, data) ELSE known]

-----------------------------------------------------------------------------
(* prolific.ProlificSession, as transformers of a world w:                 *)
(*   w.sess  the session object acted on      w.known  knownUsers          *)
(*   w.fetch its last identity fetch          w.trace  the calls made      *)
(*   w.exc   the exception in flight          w.user   the last User built *)

World(s, known, fetch) ==
    [sess |-> s, known |-> known, fetch |-> fetch, trace |-> <<>>,
     exc |-> NoExc, user |-> AnonymousData(None)]

\* property client: a ProlificClient (here: its token) or None
client(s) == IF Truthy(s.token) THEN s.token ELSE None

\* property user; gtok is getCurrentSession().getToken()
user(w, gtok, resp) ==
    IF ~Truthy(client(w.sess))
    THEN [w EXCEPT !.user = UserInit(AnonymousData(None), FALSE, gtok, w.known).data]
    ELSE LET r == retrieve_prolific_user(client(w.sess), resp)
         IN  IF r.exc # NoExc
             THEN [w EXCEPT !.exc = r.exc, !.fetch = "failed",
                            !.trace = Append(@, "me:neterr")]
             ELSE IF ~r.ok
             THEN [w EXCEPT !.user = UserInit(AnonymousData(None), FALSE, gtok, w.known).data,
                            !.fetch = "failed",
                            !.trace = Append(@, "me:status")]
             ELSE LET u == UserInit(r.data, TRUE, gtok, w.known)
                  IN  [w EXCEPT !.user = u.data, !.known = u.known,
                                !.fetch = "ok",
                                !.trace = Append(@, "me:ok")]

startSession(w, gtok, resp) ==
    IF ~Truthy(client(w.sess))
    THEN [w EXCEPT !.sess.authenticated = FALSE]
    ELSE LET w1 == user(w, gtok, resp)
         IN  IF w1.exc # NoExc THEN w1
             ELSE [w1 EXCEPT !.sess.username = w1.user.username,
                             !.sess.userID = w1.user.id,
                             !.sess.userFullName = w1.user.name,
                             !.sess.authenticated = TRUE]

\* setToken on the process-wide session object itself
setToken(w, token, resp) ==
    LET w1 == [w EXCEPT !.sess.token = token]
    IN  startSession(w1, token, resp)

\* the fields __init__ sets before it calls setToken
BlankSession ==
    [token |-> None, username |-> None, userID |-> None, userFullName |-> None,
     remember_me |-> TRUE, authenticated |-> FALSE]

\* ProlificSession(token): gtok is the token of the session then current
ProlificSession(token, gtok, known, resp) ==
    LET w == World([BlankSession EXCEPT !.token = token], known, "none")
    IN  startSession(w, gtok, resp)

-----------------------------------------------------------------------------
(* Decimal amounts: a reward is held in thousandths of the currency unit,  *)
(* so 0.13 is 130 and 0.139 is 139, and arithmetic on it is exact          *)

\* rewards tried: 0.130, 0.131, ... in MaxRewardStep steps of 0.001
MaxRewardStep == 9

RewardValues == {130 + k : k \in 0 .. MaxRewardStep}

\* a box whose text is not a number
NoText == [valid |-> FALSE, n |-> 0]

\* participants tried
PlacesValues == {0, 500}

\* as_int(value), as_decimal(value): zero when the text does not parse
as_int(text) == IF text.valid THEN text.n ELSE 0

as_decimal(text) == IF text.valid THEN text.n ELSE 0

\* int(reward*100): the product is exact, int() drops its fraction
RewardField(reward) == reward \div 10

-----------------------------------------------------------------------------
(* prolific_client.ProlificClient: the calls that POST *)

\* no request was sent
NoReq == [sent |-> FALSE, reward |-> 0, places |-> 0]

client_url == "https://test-client.prolific.co"

\* study ids the server hands out
StudyIds == {42}

\* the body of POST /study-cost-calculator/
CostBody(participants, reward) ==
    [sent |-> TRUE, reward |-> RewardField(reward), places |-> participants]

\* total_cost in the server's answer, in minor units
ServerTotalCost(req) == req.reward * req.places

\* calculate_total: exc, or ok with the total in minor units (shown divided by
\* 100), or ok = FALSE for None
calculate_total(participants, reward, resp) ==
    LET req == CostBody(participants, reward)
    IN  IF resp.err
        THEN [exc |-> "ConnectionError", ok |-> FALSE, total |-> 0, req |-> req]
        ELSE IF resp.status # 200
        THEN [exc |-> NoExc, ok |-> FALSE, total |-> 0, req |-> req]
        ELSE [exc |-> NoExc, ok |-> TRUE, total |-> ServerTotalCost(req), req |-> req]

\* a study payload; a key the payload does not have is None (permissions: hasPerm)
NoPayload ==
    [id |-> 0, name |-> None, url |-> None, hasPerm |-> FALSE, permissions |-> 0]

\* the body of POST /studies/ (the fields that vary)
StudyBody(participants, reward) ==
    [sent |-> TRUE, reward |-> RewardField(reward), places |-> participants]

\* the derived url of a created study
StudyUrl(id) == client_url \o "/studies/" \o ToString(id) \o "/"

\* create_study: exc, or ok with {**study, **extra}, or ok = FALSE for None
create_study(title, participants, reward, resp, id) ==
    LET req == StudyBody(participants, reward)
    IN  IF resp.err
        THEN [exc |-> "ConnectionError", ok |-> FALSE, data |-> NoPayload, req |-> req]
        ELSE IF resp.status # 201
        THEN [exc |-> NoExc, ok |-> FALSE, data |-> NoPayload, req |-> req]
        ELSE [exc |-> NoExc, ok |-> TRUE, req |-> req,
              data |-> [NoPayload EXCEPT !.id = id, !.name = title,
                                         !.url = StudyUrl(id)]]

\* the study the server holds under an id, as POST .../transition/ answers it
ServerStudy(id) == [NoPayload EXCEPT !.id = id, !.name = "Stroop"]

\* a version that takes every status met here but 401 for success
publish_study_AnyTwoHundred(id, resp) ==
    IF resp.err
    THEN [exc |-> "ConnectionError", ok |-> FALSE, data |-> NoPayload, study |-> id]
    ELSE IF resp.status \notin {200, 201}
    THEN [exc |-> NoExc, ok |-> FALSE, data |-> NoPayload, study |-> id]
    ELSE [exc |-> NoExc, ok |-> TRUE, data |-> ServerStudy(id), study |-> id]

\* publish_study(id): POST /studies/{id}/transition/ with action PUBLISH;
\* study is the id in the path
publish_study(id, resp) ==
    IF resp.err
    THEN [exc |-> "ConnectionError", ok |-> FALSE, data |-> NoPayload, study |-> id]
    ELSE IF resp.status # 200
    THEN [exc |-> NoExc, ok |-> FALSE, data |-> NoPayload, study |-> id]
    ELSE [exc |-> NoExc, ok |-> TRUE, data |-> ServerStudy(id), study |-> id]

-----------------------------------------------------------------------------
(* prolific.ProlificProject: a dict with attributes *)

NoEntries == [id |-> None, idNumber |-> 0, title |-> None, url |-> None]

\* None where a project is expected
NoProject ==
    [exists |-> FALSE, pavloviaId |-> None, prolific |-> NoPayload,
     entries |-> NoEntries]

\* ProlificProject(pavloviaId, data)
ProlificProject(pavloviaId, data) ==
    [exists |-> TRUE, pavloviaId |-> pavloviaId, prolific |-> data,
     entries |-> [id |-> pavloviaId, idNumber |-> data.id, title |-> data.name,
                  url |-> ""]]

\* the properties id, idNumber, title, url
ProjectId(p) == p.pavloviaId

ProjectIdNumber(p) == p.prolific.id

ProjectTitle(p) == p.prolific.name

ProjectUrl(p) == p.prolific.url

\* project['url']
ProjectUrlEntry(p) == p.entries.url

\* where a name may be held in a project: as a key of the dict itself, in its
\* __dict__, and in the payload self.prolific, which may have been emptied
AttrLookups ==
    [inMapping : BOOLEAN, inDict : BOOLEAN, payload : {"empty", "without", "with"}]

\* __getattr__(name): from is the place whose value is returned, "" for None
project_getattr(look) ==
    IF look.payload = "empty"
    THEN [exc |-> NoExc, from |-> ""]
    ELSE IF look.inMapping THEN [exc |-> NoExc, from |-> "mapping"]
    ELSE IF look.inDict THEN [exc |-> NoExc, from |-> "dict"]
    ELSE IF look.payload = "with" THEN [exc |-> NoExc, from |-> "payload"]
    ELSE [exc |-> "AttributeError", from |-> ""]

\* the stores: a mapping in memory and the file save() writes
EmptyStore == [k \in {} |-> NoProject]

\* DictStorage.save(): the file becomes the mapping held in memory
save(store) == store

-----------------------------------------------------------------------------
(* ProlificSession: prices and projects *)

\* the currency_symbol table
currency_symbol == [GBP |-> "Â£", USD |-> "$"]

\* str() of minor units divided by 100 as a Decimal: 6500 is "65", 8645 "86.45"
DecimalStr(minor) ==
    LET q == minor \div 100
        r == minor % 100
    IN  ToString(q) \o
        (IF r = 0 THEN ""
         ELSE IF r % 10 = 0 THEN "." \o ToString(r \div 10)
         ELSE IF r < 10 THEN ".0" \o ToString(r)
         ELSE "." \o ToString(r))

\* calculate_total_price: w.val is the string returned, w.req the body sent
calculate_total_price(w, gtok, participants, reward, resp1, resp2) ==
    IF ~Truthy(client(w.sess))
    THEN [val |-> "", req |-> NoReq, w |-> w]
    ELSE LET t == calculate_total(participants, reward, resp1)
             w1 == [w EXCEPT !.trace = Append(@, "cost")]
         IN  IF t.exc # NoExc
             THEN [val |-> "", req |-> t.req, w |-> [w1 EXCEPT !.exc = t.exc]]
             ELSE LET w2 == user(w1, gtok, resp2)
                      code == w2.user.currency_code
                      total == IF t.ok THEN DecimalStr(t.total) ELSE "None"
                  IN  IF w2.exc # NoExc
                      THEN [val |-> "", req |-> t.req, w |-> w2]
                      ELSE IF code = None
                      THEN [val |-> total \o "None", req |-> t.req, w |-> w2]
                      ELSE IF code \notin DOMAIN currency_symbol
                      THEN [val |-> "", req |-> t.req,
                            w |-> [w2 EXCEPT !.exc = "KeyError"]]
                      ELSE [val |-> total \o currency_symbol[code],
                            req |-> t.req, w |-> w2]

\* createProject: self.client is None without a token, and None has no create_study
createProject(w, pavloviaId, title, participants, reward, resp, id) ==
    IF ~Truthy(client(w.sess))
    THEN [proj |-> NoProject, req |-> NoReq,
          w |-> [w EXCEPT !.exc = "AttributeError"]]
    ELSE LET s == create_study(title, participants, reward, resp, id)
             w1 == [w EXCEPT !.trace = Append(@, "create"), !.exc = s.exc]
         IN  [proj |-> IF s.ok THEN ProlificProject(pavloviaId, s.data)
                       ELSE NoProject,
              req |-> s.req, w |-> w1]

\* the request line of publish_study(id)
TransitionPath(id) == "POST /studies/" \o ToString(id) \o "/transition/"

\* a publish that files the answer under the study's number
publish_RemoteIdAsLocal(w, project, resp) ==
    IF ~Truthy(client(w.sess)) \/ ~project.exists
    THEN [proj |-> NoProject, w |-> [w EXCEPT !.exc = "AttributeError"]]
    ELSE LET s == publish_study(ProjectIdNumber(project), resp)
             w1 == [w EXCEPT !.trace = Append(@, TransitionPath(s.study)),
                             !.exc = s.exc]
         IN  [proj |-> IF s.ok THEN ProlificProject(ToString(s.data.id), s.data)
                       ELSE NoProject,
              w |-> w1]

\* publish(project): None has neither publish_study nor idNumber; the result
\* is None unless publish_study gave a payload
publish(w, project, resp) ==
    IF ~Truthy(client(w.sess)) \/ ~project.exists
    THEN [proj |-> NoProject, w |-> [w EXCEPT !.exc = "AttributeError"]]
    ELSE LET s == publish_study(ProjectIdNumber(project), resp)
             w1 == [w EXCEPT !.trace = Append(@, TransitionPath(s.study)),
                             !.exc = s.exc]
         IN  [proj |-> IF s.ok THEN ProlificProject(project.pavloviaId, s.data)
                       ELSE NoProject,
              w |-> w1]

\* getProject(id, repo): both constructor calls pass the keyword repo, which
\* ProlificProject.__init__(self, pavloviaId, data) does not take
getProject(w, id, repo) ==
    IF Truthy(id)
    THEN [proj |-> NoProject, w |-> [w EXCEPT !.exc = "TypeError"]]
    ELSE IF Truthy(repo)
    THEN [proj |-> NoProject, w |-> [w EXCEPT !.exc = "TypeError"]]
    ELSE [proj |-> NoProject, w |-> w]

-----------------------------------------------------------------------------
(* The record of the last call *)

NoRet == [kind |-> "None", int |-> 0, str |-> ""]
IntRet(n) == [kind |-> "int", int |-> n, str |-> ""]
StrRet(s) == [kind |-> "str", int |-> 0, str |-> s]

Out(op, arg, w, ret) ==
    [op |-> op, arg |-> arg, exc |-> w.exc, trace |-> w.trace, ret |-> ret,
     username |-> w.user.username, req |-> NoReq, proj |-> NoProject]

-----------------------------------------------------------------------------
(* Module-level functions of prolific.py *)

\* a getCurrentSession() that makes a session on every call
CurrentWorld_AlwaysNew ==
    [w |-> World(BlankSession, knownUsers, "none"),
     obj |-> (sessionObj % MaxObjects) + 1, made |-> 1]

\* getCurrentSession(): the world of the session it returns and the objects made.
\* A session object is always true, so the first branch is taken once one exists;
\* otherwise ProlificSession() and then refreshSession(), which finds no token
\* and constructs ProlificSession() again.  Neither makes a request.
CurrentWorld ==
    IF sessionObj # 0
    THEN [w |-> World(session, knownUsers, lastFetch), obj |-> sessionObj, made |-> 0]
    ELSE [w |-> World(BlankSession, knownUsers, "none"), obj |-> 2, made |-> 2]

\* the assignments that put world w back as the process-wide session
Bind(w, obj, made) ==
    /\ sessionObj' = obj
    /\ session' = w.sess
    /\ lastFetch' = w.fetch
    /\ knownUsers' = w.known

\* room for the objects getCurrentSession() may construct
CanGetSession == sessionObj # 0 \/ 2 <= MaxObjects

getCurrentSession ==
    /\ CanGetSession
    /\ LET c == CurrentWorld
       IN  /\ Bind(c.w, c.obj, c.made)
           /\ out' = Out("getCurrentSession", [none |-> TRUE], c.w, NoRet)
    /\ UNCHANGED <<prolificUser, knownProjects, projectsFile, frameProject>>

\* refreshSession(): a new object around the token of the current one.  When the
\* constructor raises, the assignment to _existingSession does not happen.
refreshSession ==
    /\ sessionObj + 1 <= MaxObjects
    /\ LET token == IF sessionObj # 0 /\ Truthy(session.token)
                    THEN session.token ELSE None
       IN  \E resp \in Asked(Truthy(token), AppResponses(token, 200), NoResponse) :
             LET w == ProlificSession(token, session.token, knownUsers, resp)
             IN  /\ IF w.exc # NoExc
                    THEN UNCHANGED <<sessionObj, session, lastFetch, knownUsers>>
                    ELSE Bind(w, sessionObj + 1, 1)
                 /\ out' = Out("refreshSession", [token |-> token], w, NoRet)
    /\ UNCHANGED <<prolificUser, knownProjects, projectsFile, frameProject>>

\* what login() may be given: a token, a username, or an empty string
LoginInputs == Tokens \cup {"alice", "bob", ""}

\* a login that takes what it is given for the token, stored user or not
LoginToken_NoLookup(tokenOrUsername) == tokenOrUsername

\* the token login() resolves tokenOrUsername to
LoginToken(tokenOrUsername) ==
    IF tokenOrUsername \in DOMAIN knownUsers
    THEN knownUsers[tokenOrUsername].token
    ELSE tokenOrUsername

\* login(tokenOrUsername): setToken on the current session, then one more read
\* of its user for the preference
loginAs(x) ==
    /\ CanGetSession
    /\ LET c == CurrentWorld
           token == LoginToken(x)
       IN  \E r1 \in Asked(Truthy(token), AppResponses(token, 200), NoResponse) :
           \E r2 \in Asked(Truthy(token) /\ ~r1.err, AppResponses(token, 200),
                           NoResponse) :
             LET w1 == setToken(c.w, token, r1)
                 w2 == IF w1.exc # NoExc THEN w1
                       ELSE user(w1, w1.sess.token, r2)
             IN  /\ Bind(w2, c.obj, c.made)
                 /\ prolificUser' = IF w2.exc = NoExc THEN w2.user.username
                                    ELSE prolificUser
                 /\ out' = Out("login", [token |-> token, tokenOrUsername |-> x],
                               w2, NoRet)
    /\ UNCHANGED <<knownProjects, projectsFile, frameProject>>

login == \E x \in LoginInputs : loginAs(x)

\* the user the handlers of the application are tried with
AppLogin == loginAs("tokA")

\* a logout that also empties the store of known users
logout_ForgetsUsers ==
    /\ sessionObj + 1 <= MaxObjects
    /\ LET w == ProlificSession(None, session.token,
                                [n \in {} |-> AnonymousData(None)],
                                [err |-> FALSE, status |-> 200])
       IN  /\ Bind(w, sessionObj + 1, 1)
           /\ out' = Out("logout", [none |-> TRUE], w, NoRet)
    /\ prolificUser' = None
    /\ UNCHANGED <<knownProjects, projectsFile, frameProject>>

\* logout(): an empty session replaces the current one; the open frames are
\* told setUser(None), which returns at once now the preference is None
logout ==
    /\ sessionObj + 1 <= MaxObjects
    /\ LET w == ProlificSession(None, session.token, knownUsers,
                                [err |-> FALSE, status |-> 200])
       IN  /\ Bind(w, sessionObj + 1, 1)
           /\ out' = Out("logout", [none |-> TRUE], w, NoRet)
    /\ prolificUser' = None
    /\ UNCHANGED <<knownProjects, projectsFile, frameProject>>

-----------------------------------------------------------------------------
(* prolific_ui/project.py: ProjectEditor *)

\* what the participants and reward boxes hold when a handler of the editor runs
BoxPlaces == {[valid |-> TRUE, n |-> 500]}

BoxRewards == {[valid |-> TRUE, n |-> 130], NoText}

\* onCostUpdate: the total box shows calculate_total_price of the two boxes
onCostUpdate ==
    /\ CanGetSession
    /\ \E rt \in BoxRewards, pt \in BoxPlaces :
         LET c == CurrentWorld
             tok == c.w.sess.token
         IN  \E r1 \in Asked(Truthy(tok), AppResponses(tok, 200), NoResponse) :
             \E r2 \in Asked(Truthy(tok) /\ ~r1.err, AppResponses(tok, 200), NoResponse) :
               LET res == calculate_total_price(c.w, tok, as_int(pt),
                                                as_decimal(rt), r1, r2)
               IN  /\ Bind(res.w, c.obj, c.made)
                   /\ out' = [Out("onCostUpdate", [reward |-> rt],
                                  res.w, StrRet(res.val))
                                EXCEPT !.req = res.req]
    /\ UNCHANGED <<prolificUser, knownProjects, projectsFile, frameProject>>

\* titles typed into the title box
Titles == {"Stroop"}

\* the id of the frame's pavlovia project (parent.project.id), None without one
PavloviaIds == {None, "ns/exp"}

\* submitChanges of a new project: done is TRUE when it reached EndModal(ID_OK),
\* after which it saves knownProjects and hands the project to the frame
submitChanges(w, gtok, pavloviaId, title, pt, rt, resp2, resp3, id) ==
    LET w1 == user(w, gtok, resp2)
    IN  IF w1.exc # NoExc
        THEN [w |-> w1, proj |-> NoProject, req |-> NoReq, done |-> FALSE]
        ELSE LET cp == createProject(w1, pavloviaId, title, as_int(pt),
                                     as_decimal(rt), resp3, id)
             IN  IF cp.w.exc # NoExc
                 THEN [w |-> cp.w, proj |-> NoProject, req |-> cp.req, done |-> FALSE]
                 ELSE IF ~cp.proj.exists
                 THEN [w |-> [cp.w EXCEPT !.exc = "AttributeError"],
                       proj |-> NoProject, req |-> cp.req, done |-> FALSE]
                 ELSE [w |-> [cp.w EXCEPT !.trace = Append(@, "save")],
                       proj |-> cp.proj, req |-> cp.req, done |-> TRUE]

\* menu.onNew: the two checks, then the editor; the user presses OK (which
\* runs submitChanges) or Cancel
onNew ==
    /\ CanGetSession
    /\ \E pav \in PavloviaIds :
         LET c == CurrentWorld
             tok == c.w.sess.token
         IN  \E r1 \in Asked(Truthy(tok), AppResponses(tok, 200), NoResponse) :
               LET w1 == user(c.w, tok, r1)
                   opened == /\ w1.exc = NoExc
                             /\ Truthy(w1.user.username)
                             /\ pav # None
               IN  \E choice \in Asked(opened, {"ok", "cancel"}, "cancel") :
                   \E title \in Titles, pt \in BoxPlaces :
                   \E rt \in Asked(opened /\ choice = "ok", BoxRewards, NoText) :
                   \E r2 \in Asked(opened /\ choice = "ok", AppResponses(tok, 200), NoResponse) :
                   \E r3 \in Asked(opened /\ choice = "ok" /\ ~r2.err,
                                   AppResponses(tok, 201), NoResponse) :
                   \E id \in StudyIds :
                     LET sc == IF opened /\ choice = "ok"
                               THEN submitChanges(w1, tok, pav, title, pt, rt,
                                                  r2, r3, id)
                               ELSE [w |-> w1, proj |-> NoProject, req |-> NoReq,
                                     done |-> FALSE]
                         arg == [pavloviaId |-> pav, title |-> title]
                     IN  /\ Bind(sc.w, c.obj, c.made)
                         /\ frameProject' = IF sc.done THEN sc.proj
                                            ELSE frameProject
                         /\ projectsFile' = IF sc.done THEN save(knownProjects)
                                            ELSE projectsFile
                         /\ out' = [Out("onNew", arg, sc.w, NoRet)
                                      EXCEPT !.req = sc.req, !.proj = sc.proj]
    /\ UNCHANGED <<prolificUser, knownProjects>>

\* menu.onPublish: publish the frame's project, drop what publish returns,
\* then show the project's submissions page (url + "submissions/")
onPublish ==
    /\ CanGetSession
    /\ LET c == CurrentWorld
           tok == c.w.sess.token
       IN  \E resp \in Asked(Truthy(tok) /\ frameProject.exists,
                              ClientResponses(tok, 200), NoResponse) :
             LET r == publish(c.w, frameProject, resp)
                 w1 == IF r.w.exc # NoExc THEN r.w
                       ELSE IF ProjectUrl(frameProject) = None
                       THEN [r.w EXCEPT !.exc = "TypeError"]
                       ELSE [r.w EXCEPT !.trace = Append(@, "MiniBrowser")]
             IN  /\ Bind(w1, c.obj, c.made)
                 /\ out' = [Out("onPublish",
                                [project |-> frameProject, status |-> resp.status],
                                w1, NoRet)
                              EXCEPT !.proj = r.proj]
    /\ UNCHANGED <<prolificUser, knownProjects, projectsFile, frameProject>>

-----------------------------------------------------------------------------
(* prolific_ui/project.py: syncProject and DetailsPanel.onSyncButton *)

\* the permissions table of prolific.py
permissions ==
    [guest |-> 10, reporter |-> 20, developer |-> 30, maintainer |-> 30,
     owner |-> 50]

PermissionLevels == {permissions[k] : k \in DOMAIN permissions}

\* projects a frame or a details panel may hold; the last has no permissions key
SyncProjects ==
    {ProlificProject("ns/exp", [NoPayload EXCEPT !.id = 42, !.name = "Stroop",
                                                 !.hasPerm = TRUE,
                                                 !.permissions = p]) :
        p \in PermissionLevels}
    \cup {ProlificProject("ns/exp", [NoPayload EXCEPT !.id = 42, !.name = "Stroop"])}

\* the project argument of syncProject: None, or a project the user is a guest of
GivenProjects ==
    {NoProject} \cup {p \in SyncProjects : p.prolific.hasPerm
                                          /\ p.prolific.permissions = permissions.guest}

\* paths are sequences of components; the home directory is one component
Home == "/home/u"

\* the files a frame may have open
SyncFiles ==
    {<<"~", "Desktop", "a.psyexp">>, <<Home, "Desktop", "a.psyexp">>,
     <<Home, "DESKTOP", "a.psyexp">>, <<"~", "My Documents", "a.psyexp">>,
     <<Home, "exp", "a.psyexp">>}

\* os.path.dirname
dirname(p) == SubSeq(p, 1, Len(p) - 1)

\* os.path.expanduser
expanduser(p) == IF p[1] = "~" THEN <<Home>> \o Tail(p) ELSE p

\* str.lower on one component
Lower(s) ==
    CASE s = "Desktop" -> "desktop"
      [] s = "DESKTOP" -> "desktop"
      [] s = "My Documents" -> "my documents"
      [] OTHER -> s

\* os.path.normcase: lower case on Windows, nothing elsewhere
normcase(platform, p) ==
    IF platform = "nt" THEN [i \in DOMAIN p |-> Lower(p[i])] ELSE p

Platforms == {"posix", "nt"}

\* a list of refused folders that leaves out My Documents
invalidFolders_DesktopOnly(platform) ==
    {normcase(platform, expanduser(<<"~", "Desktop">>))}

\* the folders syncProject refuses
invalidFolders(platform) ==
    {normcase(platform, expanduser(<<"~", "Desktop">>)),
     normcase(platform, expanduser(<<"~", "My Documents">>))}

\* what logInProlific may return: nothing, or the username that logged in
LoginResults == {None, "alice"}

\* a syncProject whose last return is the one of a cancellation
syncProjectRun_GiveUpIsCancel(w, gtok, platform, file, isBuilder, project, resp, loginResult) ==
    LET currentPath == normcase(platform, expanduser(dirname(file)))
        proj == IF ~project.exists /\ isBuilder THEN frameProject ELSE project
    IN  IF currentPath \in invalidFolders(platform)
        THEN [w |-> [w EXCEPT !.trace = Append(@, "MessageBox")], ret |-> IntRet(-1),
              session |-> FALSE, prompted |-> FALSE]
        ELSE IF proj.exists
        THEN [w |-> w, ret |-> NoRet, session |-> FALSE, prompted |-> FALSE]
        ELSE LET w0 == [w EXCEPT !.trace = Append(@, "getCurrentSession")]
                 w1 == user(w0, gtok, resp)
                 w2 == IF w1.exc # NoExc
                       THEN [w1 EXCEPT !.exc = NoExc,
                                       !.trace = Append(@, "logInProlific")]
                       ELSE w1
                 username == IF w1.exc # NoExc THEN loginResult
                             ELSE w1.user.username
             IN  IF ~Truthy(username)
                 THEN [w |-> w2, ret |-> IntRet(-1), session |-> TRUE,
                       prompted |-> w1.exc # NoExc]
                 ELSE [w |-> w2, ret |-> IntRet(-1), session |-> TRUE,
                       prompted |-> w1.exc # NoExc]

\* syncProject(parent, project): r.ret is what it returns
syncProjectRun(w, gtok, platform, file, isBuilder, project, resp, loginResult) ==
    LET currentPath == normcase(platform, expanduser(dirname(file)))
        proj == IF ~project.exists /\ isBuilder THEN frameProject ELSE project
    IN  IF currentPath \in invalidFolders(platform)
        THEN [w |-> [w EXCEPT !.trace = Append(@, "MessageBox")], ret |-> IntRet(-1),
              session |-> FALSE, prompted |-> FALSE]
        ELSE IF proj.exists
        THEN [w |-> w, ret |-> NoRet, session |-> FALSE, prompted |-> FALSE]
        ELSE LET w0 == [w EXCEPT !.trace = Append(@, "getCurrentSession")]
                 w1 == user(w0, gtok, resp)
                 w2 == IF w1.exc # NoExc
                       THEN [w1 EXCEPT !.exc = NoExc,
                                       !.trace = Append(@, "logInProlific")]
                       ELSE w1
                 username == IF w1.exc # NoExc THEN loginResult
                             ELSE w1.user.username
             IN  IF ~Truthy(username)
                 THEN [w |-> w2, ret |-> IntRet(-1), session |-> TRUE,
                       prompted |-> w1.exc # NoExc]
                 ELSE [w |-> w2, ret |-> IntRet(0), session |-> TRUE,
                       prompted |-> w1.exc # NoExc]

syncProject ==
    /\ CanGetSession
    /\ \E platform \in Platforms, file \in SyncFiles, isBuilder \in BOOLEAN,
          project \in GivenProjects :
         LET c == CurrentWorld
             tok == c.w.sess.token
             asks == /\ normcase(platform, expanduser(dirname(file)))
                            \notin invalidFolders(platform)
                     /\ ~project.exists
                     /\ ~(isBuilder /\ frameProject.exists)
         IN  \E resp \in Asked(asks /\ Truthy(tok), AppResponses(tok, 200), NoResponse) :
             \E loginResult \in Asked(asks /\ resp.err, LoginResults, None) :
               LET r == syncProjectRun(c.w, tok, platform, file, isBuilder,
                                       project, resp, loginResult)
                   arg == [platform |-> platform, file |-> file,
                           isBuilder |-> isBuilder, project |-> project,
                           loginReturned |-> loginResult]
               IN  /\ IF r.session
                      THEN Bind(r.w, c.obj, c.made)
                      ELSE UNCHANGED <<sessionObj, session, lastFetch,
                                       knownUsers>>
                   /\ out' = Out("syncProject", arg, r.w, r.ret)
    /\ UNCHANGED <<prolificUser, knownProjects, projectsFile, frameProject>>

\* the test 'not perms or perms < prolific.permissions["developer"]'
ForkRequired(perms) == perms = 0 \/ perms < permissions.developer

\* folders the folder chooser may return; None when it is dismissed
LocalPaths == {None, "/data/exp"}

\* DetailsPanel.onSyncButton.  A project has no forkTo, no permissions unless
\* its payload has the key, and no localRoot entry.
onSyncButtonRun(w, gtok, haveGit, project, resp, newPath) ==
    IF ~haveGit
    THEN [w |-> [w EXCEPT !.trace = Append(@, "noGitWarning")], ret |-> IntRet(0)]
    ELSE IF ~project.exists
    THEN [w |-> [w EXCEPT !.exc = "AttributeError"], ret |-> NoRet]
    ELSE LET w1 == user(w, gtok, resp)
         IN  IF w1.exc # NoExc
             THEN [w |-> w1, ret |-> NoRet]
             ELSE IF ~Truthy(w1.user.username)
             THEN [w |-> [w1 EXCEPT !.trace = Append(@, "logInProlific")],
                   ret |-> NoRet]
             ELSE IF ~project.prolific.hasPerm
             THEN [w |-> [w1 EXCEPT !.exc = "AttributeError"], ret |-> NoRet]
             ELSE IF ForkRequired(project.prolific.permissions)
             THEN [w |-> [w1 EXCEPT !.trace = Append(@, "forkTo"),
                                    !.exc = "AttributeError"],
                   ret |-> NoRet]
             ELSE [w |-> [w1 EXCEPT !.trace = @ \o <<"setLocalPath", "sync">>],
                   ret |-> NoRet]

onSyncButton ==
    /\ CanGetSession
    /\ \E haveGit \in BOOLEAN, project \in SyncProjects \cup {NoProject} :
         LET c == CurrentWorld
             tok == c.w.sess.token
             asks == haveGit /\ project.exists
         IN  \E resp \in Asked(asks /\ Truthy(tok), AppResponses(tok, 200), NoResponse) :
             \E newPath \in Asked(asks /\ Truthy(tok) /\ ~resp.err
                                        /\ project.prolific.hasPerm
                                        /\ ~ForkRequired(project.prolific.permissions),
                                  LocalPaths, None) :
               LET r == onSyncButtonRun(c.w, tok, haveGit, project, resp, newPath)
                   arg == [haveGit |-> haveGit, project |-> project,
                           newPath |-> newPath]
               IN  /\ Bind(r.w, c.obj, c.made)
                   /\ out' = Out("onSyncButton", arg, r.w, r.ret)
    /\ UNCHANGED <<prolificUser, knownProjects, projectsFile, frameProject>>

Init ==
    /\ sessionObj = 0
    /\ session = BlankSession
    /\ lastFetch = "none"
    /\ knownUsers = [n \in {} |-> AnonymousData(None)]
    /\ prolificUser = None
    /\ knownProjects = EmptyStore
    /\ projectsFile = EmptyStore
    /\ frameProject = NoProject
    /\ out = Out("init", [none |-> TRUE], World(BlankSession, knownUsers, "none"), NoRet)

\* the session layer
Next ==
    \/ getCurrentSession
    \/ refreshSession
    \/ login
    \/ logout

Spec == Init /\ [][Next]_vars

\* the handlers of the application, with one user who may log in
NextApp ==
    \/ AppLogin
    \/ onCostUpdate
    \/ onNew
    \/ syncProject
    \/ onSyncButton
    \/ onPublish

SpecApp == Init /\ [][NextApp]_vars

-----------------------------------------------------------------------------
(* Direct calls of the client and of the session's createProject, on a      *)
(* session that holds the token given                                       *)

callRetrieveUser ==
    /\ \E token \in Tokens :
       \E resp \in ClientResponses(token, 200) :
         LET r == retrieve_prolific_user(token, resp)
             w == [World([BlankSession EXCEPT !.token = token], knownUsers, "none")
                     EXCEPT !.exc = r.exc]
         IN  out' = [Out("retrieve_prolific_user",
                         [token |-> token, status |-> resp.status], w,
                         IF r.ok THEN StrRet(r.data.token) ELSE NoRet)
                       EXCEPT !.username = IF r.ok THEN r.data.username ELSE None]
    /\ UNCHANGED <<sessionObj, session, lastFetch, knownUsers, prolificUser,
                   knownProjects, projectsFile, frameProject>>

callCalculateTotal ==
    /\ \E token \in Tokens, participants \in PlacesValues, reward \in RewardValues :
       \E resp \in ClientResponses(token, 200) :
         LET r == calculate_total(participants, reward, resp)
             w == [World([BlankSession EXCEPT !.token = token], knownUsers, "none")
                     EXCEPT !.exc = r.exc]
         IN  out' = [Out("calculate_total",
                         [reward |-> reward, participants |-> participants,
                          status |-> resp.status], w,
                         IF r.ok THEN IntRet(r.total) ELSE NoRet)
                       EXCEPT !.req = r.req]
    /\ UNCHANGED <<sessionObj, session, lastFetch, knownUsers, prolificUser,
                   knownProjects, projectsFile, frameProject>>

callCreateProject ==
    /\ \E token \in Tokens \cup {None}, title \in Titles, pav \in PavloviaIds,
          participants \in PlacesValues, reward \in RewardValues, id \in StudyIds :
       \E resp \in Asked(Truthy(token), ClientResponses(token, 201), NoResponse) :
         LET w == World([BlankSession EXCEPT !.token = token], knownUsers, "none")
             r == createProject(w, pav, title, participants, reward, resp, id)
         IN  out' = [Out("createProject",
                         [reward |-> reward, participants |-> participants,
                          status |-> resp.status, id |-> id, pavloviaId |-> pav,
                          title |-> title], r.w, NoRet)
                       EXCEPT !.req = r.req, !.proj = r.proj]
    /\ UNCHANGED <<sessionObj, session, lastFetch, knownUsers, prolificUser,
                   knownProjects, projectsFile, frameProject>>

callPublishStudy ==
    /\ \E token \in Tokens, id \in StudyIds :
       \E resp \in ClientResponses(token, 200) :
         LET r == publish_study(id, resp)
             w == [World([BlankSession EXCEPT !.token = token], knownUsers, "none")
                     EXCEPT !.exc = r.exc]
         IN  out' = [Out("publish_study",
                         [id |-> id, status |-> resp.status, study |-> r.study], w,
                         IF r.ok THEN IntRet(r.data.id) ELSE NoRet)
                       EXCEPT !.proj = IF r.ok THEN ProlificProject(None, r.data)
                                       ELSE NoProject]
    /\ UNCHANGED <<sessionObj, session, lastFetch, knownUsers, prolificUser,
                   knownProjects, projectsFile, frameProject>>

\* git repositories getProject may be given; None for none
Repos == {None, "repo"}

callGetProject ==
    /\ \E token \in Tokens \cup {None}, id \in PavloviaIds \cup {""}, repo \in Repos :
         LET w == World([BlankSession EXCEPT !.token = token], knownUsers, "none")
             r == getProject(w, id, repo)
         IN  out' = [Out("getProject", [id |-> id, repo |-> repo, token |-> token],
                         r.w, NoRet)
                       EXCEPT !.proj = r.proj]
    /\ UNCHANGED <<sessionObj, session, lastFetch, knownUsers, prolificUser,
                   knownProjects, projectsFile, frameProject>>

\* ProlificSession(token) called directly: the object made is not the
\* process-wide session.  User.__init__ asks getCurrentSession() for the token
\* it stores, which makes the process-wide session when there is none yet.
constructSession ==
    /\ CanGetSession
    /\ \E token \in Tokens \cup {None} :
       \E resp \in Asked(Truthy(token), ClientResponses(token, 200), NoResponse) :
         LET c == CurrentWorld
             w == ProlificSession(token, c.w.sess.token, knownUsers, resp)
             userBuilt == Truthy(token) /\ ~resp.err
         IN  /\ IF userBuilt
                THEN /\ sessionObj' = c.obj
                     /\ session' = c.w.sess
                     /\ lastFetch' = c.w.fetch
                ELSE UNCHANGED <<sessionObj, session, lastFetch>>
             /\ knownUsers' = w.known
             /\ out' = Out("ProlificSession",
                           [token |-> token, status |-> resp.status], w, NoRet)
    /\ UNCHANGED <<prolificUser, knownProjects, projectsFile, frameProject>>

callGetAttr ==
    /\ \E look \in AttrLookups :
         LET r == project_getattr(look)
             w == [World(BlankSession, knownUsers, "none") EXCEPT !.exc = r.exc]
         IN  out' = Out("__getattr__", look, w,
                        IF r.from = "" THEN NoRet ELSE StrRet(r.from))
    /\ UNCHANGED <<sessionObj, session, lastFetch, knownUsers, prolificUser,
                   knownProjects, projectsFile, frameProject>>

NextClient ==
    \/ callRetrieveUser
    \/ callCalculateTotal
    \/ callCreateProject
    \/ callPublishStudy
    \/ callGetProject
    \/ callGetAttr
    \/ constructSession

SpecClient == Init /\ [][NextClient]_vars

-----------------------------------------------------------------------------
(* Properties *)

\* event e is in trace t
Has(t, e) == \E i \in DOMAIN t : t[i] = e

\* event a is in trace t, and b after it
Before(t, a, b) == \E i, j \in DOMAIN t : i < j /\ t[i] = a /\ t[j] = b

\* every identity fetch of the last call failed, and there was one
FetchesFailed ==
    /\ \E i \in DOMAIN out.trace : out.trace[i] \in {"me:status", "me:neterr"}
    /\ ~Has(out.trace, "me:ok")

\* C1: a session is authenticated if and only if its token is set and the
\* most recent identity fetch made for it succeeded.
C1_AuthenticatedIffFetchSucceeded ==
    sessionObj # 0 =>
        (session.authenticated <=> (Truthy(session.token) /\ lastFetch = "ok"))

\* C2: when the identity fetch fails for the token, logging in with it or
\* refreshing a session that holds it raises nothing and leaves the session
\* unauthenticated, and the user then read has the empty string as username.
C2_FailedFetchIsAnonymous ==
    /\ (out.op = "login" /\ Truthy(out.arg.token) /\ FetchesFailed) =>
           /\ out.exc = NoExc
           /\ ~session.authenticated
           /\ out.username = ""
    /\ (out.op = "refreshSession" /\ Truthy(out.arg.token) /\ FetchesFailed) =>
           /\ out.exc = NoExc
           /\ ~session.authenticated

\* C3: syncProject returns 1, 0 or -1 and raises nothing.
C3_TriStateReturn ==
    out.op = "syncProject" =>
        /\ out.exc = NoExc
        /\ out.ret.kind = "int"
        /\ out.ret.int \in {1, 0, -1}

\* the file lies directly in the home Desktop or My Documents folder, written
\* with ~ or with the home directory, in any case where the platform folds case
IsHomeSystemFolder(platform, file) ==
    /\ Len(file) = 3
    /\ file[1] \in {"~", Home}
    /\ \/ file[2] \in {"Desktop", "My Documents"}
       \/ platform = "nt" /\ file[2] \in {"DESKTOP", "desktop", "MY DOCUMENTS",
                                           "my documents"}

\* C4: syncProject on a file in the home Desktop or My Documents folder
\* returns -1 having shown its message and nothing else: no session access,
\* no request, no login prompt, whatever project it was given.
C4_SystemFolderRejected ==
    (out.op = "syncProject"
        /\ IsHomeSystemFolder(out.arg.platform, out.arg.file)) =>
        /\ out.ret = IntRet(-1)
        /\ out.exc = NoExc
        /\ out.trace = <<"MessageBox">>

\* a folded-case Desktop path was rejected although a project was supplied
C4_Witness ==
    /\ out.op = "syncProject"
    /\ out.arg.platform = "nt"
    /\ out.arg.file = <<Home, "DESKTOP", "a.psyexp">>
    /\ out.arg.project.exists
    /\ out.ret = IntRet(-1)
    /\ out.trace = <<"MessageBox">>

\* the file is in a folder syncProject accepts
AllowedFolder == ~IsHomeSystemFolder(out.arg.platform, out.arg.file)

\* the project the last sync call was about is one the user is a guest of
GuestProject ==
    /\ out.arg.project.exists
    /\ out.arg.project.prolific.hasPerm
    /\ out.arg.project.prolific.permissions = permissions.guest

\* C5: started on a guest's project with no local folder, in an allowed
\* folder, the sync workflow forks, then asks for a folder, then syncs, and
\* returns 1.
C5_ForkThenFolderThenSync ==
    /\ (out.op = "syncProject" /\ AllowedFolder /\ GuestProject) =>
           /\ Before(out.trace, "forkTo", "setLocalPath")
           /\ Before(out.trace, "setLocalPath", "sync")
           /\ out.ret = IntRet(1)
    /\ (out.op = "onSyncButton" /\ out.arg.haveGit /\ GuestProject
            /\ Has(out.trace, "me:ok") /\ out.arg.newPath # None) =>
           /\ Before(out.trace, "forkTo", "setLocalPath")
           /\ Before(out.trace, "setLocalPath", "sync")

\* C6: in an allowed folder, with no project given or held by the frame and
\* nobody logged in, syncProject calls logInProlific, and returns -1 when
\* that returns None.
C6_LoginPromptedWhenLoggedOut ==
    (out.op = "syncProject" /\ AllowedFolder
        /\ ~out.arg.project.exists
        /\ ~(out.arg.isBuilder /\ frameProject.exists)
        /\ ~Truthy(session.username)) =>
        /\ Has(out.trace, "logInProlific")
        /\ (out.arg.loginReturned = None => out.ret = IntRet(-1))

\* the last call was onSyncButton and it came to test the permissions
ReachedPermissionTest ==
    /\ out.op = "onSyncButton"
    /\ out.arg.haveGit
    /\ out.arg.project.exists
    /\ out.arg.project.prolific.hasPerm
    /\ Has(out.trace, "me:ok")

\* C7: for the permission levels 10, 20, 30 and 50 the sync button's handler
\* forks the project and then syncs when the level is below 30, and syncs
\* without forking otherwise.
C7_ForkIffBelowDeveloper ==
    ReachedPermissionTest =>
        /\ out.arg.project.prolific.permissions \in {10, 20, 30, 50}
        /\ out.arg.project.prolific.permissions < 30 =>
               /\ out.exc = NoExc
               /\ Before(out.trace, "forkTo", "sync")
        /\ out.arg.project.prolific.permissions >= 30 =>
               /\ out.exc = NoExc
               /\ ~Has(out.trace, "forkTo")
               /\ Has(out.trace, "sync")

\* C8: after createProject succeeded and knownProjects.save() ran, the file
\* holds under the project's id a record with its id, title and idNumber.
C8_StoredRecordRoundTrip ==
    (out.op = "onNew" /\ out.proj.exists /\ Has(out.trace, "save")) =>
        /\ ProjectId(out.proj) \in DOMAIN projectsFile
        /\ ProjectId(projectsFile[ProjectId(out.proj)]) = ProjectId(out.proj)
        /\ ProjectTitle(projectsFile[ProjectId(out.proj)]) = ProjectTitle(out.proj)
        /\ ProjectIdNumber(projectsFile[ProjectId(out.proj)])
               = ProjectIdNumber(out.proj)

\* round(reward*100) of a reward in thousandths, halves to the even neighbour
DecimalRound(reward) ==
    LET q == reward \div 10
        r == reward % 10
    IN  IF r > 5 \/ (r = 5 /\ q % 2 = 1) THEN q + 1 ELSE q

\* C9: the reward field calculate_total and create_study send is
\* round(reward*100).
C9_RewardFieldIsRounded ==
    (out.op \in {"calculate_total", "createProject"} /\ out.req.sent) =>
        out.req.reward = DecimalRound(out.arg.reward)

\* C10: create_study with reward 0.13 and 500 participants sends reward 13
\* and 500 places; it returns None on every status but 201; on 201 with id N
\* the project's url is {client_url}/studies/N/, as attribute and as entry.
C10_CreateStudyRecord ==
    (out.op = "createProject" /\ out.req.sent /\ out.exc = NoExc) =>
        /\ (out.arg.reward = 130 /\ out.arg.participants = 500) =>
               (out.req.reward = 13 /\ out.req.places = 500)
        /\ out.arg.status # 201 => ~out.proj.exists
        /\ out.arg.status = 201 =>
               /\ out.proj.exists
               /\ ProjectUrl(out.proj)
                      = "https://test-client.prolific.co/studies/"
                            \o ToString(out.arg.id) \o "/"
               /\ ProjectUrlEntry(out.proj)
                      = "https://test-client.prolific.co/studies/"
                            \o ToString(out.arg.id) \o "/"

\* the single status each operation of the client takes for success
SuccessStatus(op) == IF op = "createProject" THEN 201 ELSE 200

ClientOps == {"retrieve_prolific_user", "calculate_total", "createProject",
              "publish_study"}

\* the last call was one of the client's operations (create_study through
\* createProject) and the server answered it
ClientAnswered ==
    /\ out.op \in ClientOps
    /\ out.exc = NoExc
    /\ out.arg.status # 0

\* C11: retrieve_prolific_user, calculate_total and publish_study return None
\* on every status but 200, and create_study on every status but 201.
C11_NullUnlessSuccessStatus ==
    (ClientAnswered /\ out.arg.status # SuccessStatus(out.op)) =>
        /\ out.ret = NoRet
        /\ ~out.proj.exists

\* publish_study was answered 201 and returned None
C11_Witness ==
    /\ out.op = "publish_study"
    /\ out.exc = NoExc
    /\ out.arg.status = 201
    /\ out.ret = NoRet

\* the last call was one of the client's operations and its request met a
\* network failure
NetworkFailed ==
    /\ out.op \in ClientOps
    /\ out.arg.status = 0
    /\ out.op = "createProject" => out.req.sent

\* C12: a network failure during an operation of the client raises nothing
\* and gives None.
C12_NetworkFailureIsNull ==
    NetworkFailed =>
        /\ out.exc = NoExc
        /\ out.ret = NoRet
        /\ ~out.proj.exists

\* C13: the payload retrieve_prolific_user returns has under 'token' the
\* token the client was made with.
C13_PayloadCarriesClientToken ==
    (out.op = "retrieve_prolific_user" /\ out.ret.kind = "str") =>
        out.ret.str = out.arg.token

\* C14: login, logout and refreshSession each put a newly constructed session
\* object in place of the current one, and no step changes the token of a
\* session object that stays.
C14_SessionReplacedNotPatched ==
    [][/\ out'.op \in {"login", "logout", "refreshSession"} =>
              sessionObj' # sessionObj
       /\ (sessionObj # 0 /\ sessionObj' = sessionObj) =>
              session'.token = session.token]_vars

\* C15: logout leaves knownUsers as it was, and the session current after it
\* has no token, no client, no username, and is not authenticated.
C15_LogoutKeepsKnownUsers ==
    [][out'.op = "logout" =>
           /\ knownUsers' = knownUsers
           /\ session'.token = None
           /\ client(session') = None
           /\ ~session'.authenticated
           /\ session'.username = None]_vars

\* alice, whose record is in the store, has logged out
C15_Witness ==
    /\ out.op = "logout"
    /\ "alice" \in DOMAIN knownUsers
    /\ knownUsers["alice"].token = "tokA"
    /\ session.token = None

\* C16: createProject raises nothing; it returns None when the session has no
\* client or the server answered a status other than 201, and otherwise a
\* project whose id is the pavloviaId given and whose idNumber and title are
\* the id and name of the payload.
C16_CreateProjectNullOrRecord ==
    (out.op = "createProject" /\ ~NetworkFailed) =>
        /\ out.exc = NoExc
        /\ (~out.req.sent \/ out.arg.status # 201) => ~out.proj.exists
        /\ (out.req.sent /\ out.arg.status = 201) =>
               /\ out.proj.exists
               /\ ProjectId(out.proj) = out.arg.pavloviaId
               /\ ProjectIdNumber(out.proj) = out.arg.id
               /\ ProjectTitle(out.proj) = out.arg.title

\* C17: getProject with a non-empty id returns a project made for that id and
\* makes no request, and it returns None only when it is given neither an id
\* nor a repo.
C17_GetProjectIsLocal ==
    out.op = "getProject" =>
        /\ Truthy(out.arg.id) =>
               /\ out.exc = NoExc
               /\ out.proj.exists
               /\ ProjectId(out.proj) = out.arg.id
               /\ out.trace = <<>>
        /\ (out.exc = NoExc /\ ~out.proj.exists) =>
               (~Truthy(out.arg.id) /\ ~Truthy(out.arg.repo))

\* the amounts the cost calculator can answer for what the boxes hold, as
\* str() shows them
PriceAmounts ==
    {DecimalStr(ServerTotalCost(CostBody(as_int(pt), as_decimal(rt)))) :
        pt \in BoxPlaces, rt \in BoxRewards}

\* C18: calculate_total_price returns the empty string when the session has
\* no client, and otherwise an amount followed by the pound or the dollar sign.
C18_PriceIsAmountAndSymbol ==
    (out.op = "onCostUpdate" /\ out.exc = NoExc) =>
        /\ out.ret.kind = "str"
        /\ IF ~Truthy(session.token)
           THEN out.ret.str = ""
           ELSE \E amount \in PriceAmounts, symbol \in {"£", "$"} :
                    out.ret.str = amount \o symbol

\* C19: login raises only when getCurrentSession() gave it no session; it
\* always gets one here, so it raises nothing.
C19_LoginRaisesOnlyWithoutSession ==
    (out.op = "login" /\ sessionObj # 0) => out.exc = NoExc

\* C20: publish posts the PUBLISH transition of the project's idNumber; when
\* the server answers 200 it returns a project with the same id made from the
\* answer, when it answers any other status None, and the frame's project is
\* as it was.
C20_PublishReturnsRecordOn200 ==
    (out.op = "onPublish" /\ out.arg.project.exists /\ out.arg.status # 0) =>
        /\ Has(out.trace, TransitionPath(ProjectIdNumber(out.arg.project)))
        /\ out.arg.status = 200 =>
               /\ out.proj.exists
               /\ ProjectId(out.proj) = ProjectId(out.arg.project)
               /\ out.proj.prolific = ServerStudy(ProjectIdNumber(out.arg.project))
        /\ out.arg.status # 200 => ~out.proj.exists
        /\ frameProject = out.arg.project

\* the project made by onNew was published with a 200 answer
C20_Witness ==
    /\ out.op = "onPublish"
    /\ out.arg.status = 200
    /\ out.proj.exists
    /\ ProjectId(out.proj) = "ns/exp"
    /\ frameProject.exists

\* C21: the username, userID and userFullName of the session are those of its
\* token: None when the token is empty, and otherwise, when set, what the
\* server holds for that token.
C21_IdentityFollowsToken ==
    sessionObj # 0 =>
        /\ ~Truthy(session.token) =>
               /\ session.username = None
               /\ session.userID = None
               /\ session.userFullName = None
        /\ Truthy(session.username) =>
               /\ session.token \in ValidTokens
               /\ session.username = ServerUsers[session.token].username
               /\ session.userID = ServerUsers[session.token].id
               /\ session.userFullName = ServerUsers[session.token].name

\* the first of mapping, __dict__ and payload that holds the name looked up
FirstHit(look) ==
    IF look.inMapping THEN "mapping"
    ELSE IF look.inDict THEN "dict"
    ELSE IF look.payload = "with" THEN "payload"
    ELSE ""

\* C22: __getattr__ returns the value of the first of the project's mapping,
\* its __dict__ and its payload that holds the name, and raises
\* AttributeError exactly when none of them does.
C22_AttributeLookupOrder ==
    out.op = "__getattr__" =>
        /\ out.exc = "AttributeError" <=> FirstHit(out.arg) = ""
        /\ FirstHit(out.arg) # "" => out.ret = StrRet(FirstHit(out.arg))

\* the username syncProject came to hold is not empty: the session's user
\* had one, or reading it raised and logInProlific returned one
SyncLoggedIn ==
    \/ Has(out.trace, "me:ok")
    \/ Has(out.trace, "logInProlific") /\ out.arg.loginReturned # None

\* C23: in an allowed folder, with no project given or held by the frame and
\* a user logged in, syncProject returns 0 and calls neither forkTo nor the
\* folder chooser nor sync.
C23_NoProjectReturnsZero ==
    (out.op = "syncProject" /\ AllowedFolder
        /\ ~out.arg.project.exists
        /\ ~(out.arg.isBuilder /\ frameProject.exists)
        /\ SyncLoggedIn) =>
        /\ out.ret = IntRet(0)
        /\ out.exc = NoExc
        /\ ~Has(out.trace, "forkTo")
        /\ ~Has(out.trace, "setLocalPath")
        /\ ~Has(out.trace, "sync")

\* alice, logged in, asked to sync from a Coder frame with no project
C23_Witness ==
    /\ out.op = "syncProject"
    /\ AllowedFolder
    /\ ~out.arg.project.exists
    /\ ~out.arg.isBuilder
    /\ out.username = "alice"
    /\ Has(out.trace, "me:ok")
    /\ out.ret = IntRet(0)

\* C24: login(x) sets as the session's token the token stored for x when x is
\* a key of knownUsers, and x itself otherwise; when it returns, the
\* prolificUser preference is the username of the user fetched last, the one
\* the server holds for the token when that fetch was answered 200.
C24_LoginResolvesToken ==
    [][out'.op = "login" =>
           /\ session'.token =
                  IF out'.arg.tokenOrUsername \in DOMAIN knownUsers
                  THEN knownUsers[out'.arg.tokenOrUsername].token
                  ELSE out'.arg.tokenOrUsername
           /\ out'.exc = NoExc =>
                  /\ prolificUser' = out'.username
                  /\ (out'.trace # <<>> /\ out'.trace[Len(out'.trace)] = "me:ok") =>
                         prolificUser' = ServerUsers[session'.token].username]_vars

\* login("alice") took alice's stored token after a logout
C24_Witness ==
    /\ out.op = "login"
    /\ out.arg.tokenOrUsername = "alice"
    /\ session.token = "tokA"
    /\ prolificUser = "alice"

\* C25: a session whose identity fetch succeeds stores the user's record in
\* knownUsers under the username fetched, with the session's own token as its
\* 'token'; when no user was fetched knownUsers stays as it was.
C25_FetchStoresSessionToken ==
    [][out'.op = "ProlificSession" =>
           IF out'.trace # <<>> /\ out'.trace[Len(out'.trace)] = "me:ok"
           THEN /\ out'.username \in DOMAIN knownUsers'
                /\ knownUsers'[out'.username].token = out'.arg.token
           ELSE knownUsers' = knownUsers]_vars

\* C26: a session has a client exactly when its token is not empty, whatever
\* became of its identity fetch, and the process-wide session object stays
\* the same one through every call but logout and refreshSession.
C26_OneSessionClientIffToken ==
    [][/\ sessionObj' # 0 =>
              (client(session') # None <=> session'.token \notin {None, ""})
       /\ (sessionObj # 0 /\ out'.op \notin {"logout", "refreshSession"}) =>
              sessionObj' = sessionObj]_vars

\* getCurrentSession returned the session whose token was refused
C26_Witness ==
    /\ out.op = "getCurrentSession"
    /\ sessionObj # 0
    /\ client(session) = "tokBad"
    /\ lastFetch = "failed"

====
